---- MODULE Spec2Model ----
(***************************************************************************)
(* The OVH provider of external-dns (provider/ovh.go): Records and         *)
(* ApplyChanges against a remote zone/record API whose responses are       *)
(* arbitrary.                                                              *)
(*                                                                         *)
(* Strings that are DNS names are modelled as the sequence of their        *)
(* dot-separated labels: "www.example.com" is <<"www","example","com">>,   *)
(* the empty string is <<"">> and ".example.com" is <<"","example","com">>.*)
(* Splitting at "." is a bijection between strings and non-empty label     *)
(* sequences, a + "." + b is a \o b, and "s ends with "." + z" is "z is a  *)
(* proper suffix of the labels of s".                                      *)
(***************************************************************************)
EXTENDS Integers, Sequences, FiniteSets, TLC

\* ------------------------------------------------------------------ bounds
\* Largest number of endpoints in one changeset (create + delete + update).
MaxEndpoints == 2
\* Largest number of ids in one record-id listing of the remote API.
MaxIds == 2

\* ------------------------------------------------------------- the universe
EmptyString == <<"">>
ExampleCom == <<"example", "com">>
OtherOrg == <<"other", "org">>
WwwExampleCom == <<"www", "example", "com">>
DotExampleCom == <<"", "example", "com">>
WwwOtherOrg == <<"www", "other", "org">>

\* Names an endpoint of a changeset may carry.
DNSNames == {ExampleCom, WwwExampleCom, DotExampleCom, WwwOtherOrg}
\* Target lists an endpoint of a changeset may carry (zero, one, two targets).
TargetLists == {<< >>, <<"1.2.3.4">>, <<"1.2.3.4", "5.6.7.8">>}
\* Endpoints of a changeset (endpoint.Endpoint: DNSName, RecordType, RecordTTL,
\* Targets): every name with one target, and one name with zero and two targets.
Endpoints ==
  {e \in [DNSName : DNSNames, RecordType : {"A"}, RecordTTL : {300}, Targets : TargetLists] :
     Len(e.Targets) = 1 \/ e.DNSName = WwwExampleCom}

\* Zone listings GET /domain/zone may answer with.
ZoneLists == {<< >>, <<ExampleCom>>, <<OtherOrg, ExampleCom>>}
\* Domain filters the provider may be constructed with, as the set of names
\* the filter's predicate accepts.
DomainFilters ==
  { {ExampleCom, OtherOrg, WwwExampleCom, DotExampleCom, WwwOtherOrg},
    {ExampleCom, WwwExampleCom, DotExampleCom},
    {OtherOrg, WwwOtherOrg} }
\* Records GET /domain/zone/{zone}/record/{id} may answer with.
RemoteRecords ==
  [SubDomain : {EmptyString, <<"www">>}, FieldType : {"A", "MX"},
   Target : {"1.2.3.4"}, TTL : {300}]

\* ------------------------------------------------------------------ helpers
Range(s) == {s[k] : k \in 1..Len(s)}
\* The injective sequences over S of length at most n.
RECURSIVE InjSeqs(_, _)
InjSeqs(S, n) ==
  IF n = 0 THEN {<< >>}
  ELSE LET shorter == InjSeqs(S, n - 1)
       IN  shorter \cup UNION {{Append(s, x) : x \in S \ Range(s)} : s \in shorter}
\* strings.HasSuffix(s, "." + z)
HasDotSuffix(s, z) ==
  /\ Len(s) > Len(z)
  /\ SubSeq(s, Len(s) - Len(z) + 1, Len(s)) = z
\* strings.TrimSuffix(s, "." + z)
TrimDotSuffix(s, z) ==
  IF HasDotSuffix(s, z) THEN SubSeq(s, 1, Len(s) - Len(z)) ELSE s

\* ------------------------------------------------------------------- state
VARIABLES
  dryRun,            \* OVHProvider.dryRun
  domainFilter,      \* OVHProvider.domainFilter
  op,                \* the operation in progress: "none", "Records", "ApplyChanges"
  pc,                \* position in the operation
  changes,           \* the plan.Changes argument of ApplyChanges
  zones,             \* the zone names getZones returned
  zoneNameIDMapper,  \* ApplyChanges: the zone-name lookup table
  i,                 \* index of the next endpoint (ApplyChanges) or zone (Records)
  recordIDs,         \* Records: the record ids listed for the current zone
  ri,                \* Records: index of the next record id
  endpoints,         \* Records: the endpoints collected so far
  calls,             \* the remote calls issued so far, each with its response
  answer,            \* ApplyChanges: what the lookup of the iteration in progress returned (err, ids)
  visited,           \* ApplyChanges: the <<phase, index>> of the loop iterations run so far
  result             \* what the operation returned

vars ==
  <<dryRun, domainFilter, op, pc, changes, zones, zoneNameIDMapper, i,
    recordIDs, ri, endpoints, calls, answer, visited, result>>

NoChanges == [Create |-> << >>, Delete |-> << >>, UpdateNew |-> << >>]
\* No lookup is awaiting its DELETE or PUT.
NoAnswer == [err |-> FALSE, ids |-> << >>]
NoResult == [status |-> "none", isNil |-> TRUE, endpoints |-> << >>]

\* One remote call: the loop position that issued it (phase, idx), the
\* request (method, zone, id, and the record body or the lookup query in
\* fieldType, subDomain, target, ttl) and the response (err, ids; for a
\* record fetch the record comes back in fieldType, subDomain, target, ttl).
Call(phase, idx, method, zone, id, rec, err, listed) ==
  [phase |-> phase, idx |-> idx, method |-> method, zone |-> zone, id |-> id,
   fieldType |-> rec.FieldType, subDomain |-> rec.SubDomain,
   target |-> rec.Target, ttl |-> rec.TTL, err |-> err, ids |-> listed]

NoRecord == [SubDomain |-> EmptyString, FieldType |-> "", Target |-> "", TTL |-> 0]

\* Responses of the remote API.
LookupResponses ==
  {[err |-> TRUE, ids |-> << >>]} \cup
  {[err |-> FALSE, ids |-> [k \in 1..n |-> k]] : n \in 0..MaxIds}
ListResponses ==
  {[err |-> TRUE, ids |-> << >>]} \cup
  {[err |-> FALSE, ids |-> s] : s \in InjSeqs(1..MaxIds, MaxIds)}
ZoneResponses ==
  {[err |-> TRUE, zones |-> << >>]} \cup {[err |-> FALSE, zones |-> z] : z \in ZoneLists}
FetchResponses ==
  {[err |-> TRUE, record |-> NoRecord]} \cup {[err |-> FALSE, record |-> r] : r \in RemoteRecords}

\* The changesets ApplyChanges may be called with.
RECURSIVE SeqsUpTo(_, _)
SeqsUpTo(S, n) ==
  IF n = 0 THEN {<< >>}
  ELSE LET shorter == SeqsUpTo(S, n - 1)
       IN  shorter \cup {Append(s, x) : s \in shorter, x \in S}
Changesets ==
  {[Create |-> SubSeq(s[1], 1, s[2]),
    Delete |-> SubSeq(s[1], s[2] + 1, s[3]),
    UpdateNew |-> SubSeq(s[1], s[3] + 1, Len(s[1]))] :
     s \in {t \in SeqsUpTo(Endpoints, MaxEndpoints) \X (0..MaxEndpoints) \X (0..MaxEndpoints) :
              t[2] <= t[3] /\ t[3] <= Len(t[1])}}

\* ------------------------------------------------- external collaborators
\* DomainFilter.Match: the filter is a predicate on names.
Match(domain) == domain \in domainFilter

\* zoneIDName.FindZone: the longest zone of the table that owns the
\* hostname (the hostname is the zone or ends with "." + zone); the empty
\* string when no zone owns it.
FindZone(mapper, hostname) ==
  LET owners == {z \in DOMAIN mapper :
                   hostname = mapper[z] \/ HasDotSuffix(hostname, mapper[z])}
  IN  IF owners = {} THEN EmptyString
      ELSE CHOOSE z \in owners : \A y \in owners : Len(mapper[y]) <= Len(mapper[z])

\* supportedRecordType: the allow-list of record types.
SupportedRecordTypes == {"A", "CNAME", "TXT"}
supportedRecordType(recordType) == recordType \in SupportedRecordTypes

\* endpoint.NewEndpointWithTTL with a single target.
NewEndpointWithTTL(dnsName, recordType, ttl, target) ==
  [DNSName |-> dnsName, RecordType |-> recordType, RecordTTL |-> ttl,
   Targets |-> <<target>>]

\* --------------------------------------------------------- pure functions
\* formatOVHDNSName without the test for the empty record name.
formatOVHDNSNameAlwaysJoined(recordName, zoneName) == recordName \o zoneName

formatOVHDNSName(recordName, zoneName) ==
  IF recordName = EmptyString THEN zoneName ELSE recordName \o zoneName

getOVHSubDomain(DNSName, zoneName) ==
  IF DNSName # zoneName THEN TrimDotSuffix(DNSName, zoneName) ELSE EmptyString

\* The OvhDomainZoneRecord createRecords and updateRecords send.
RecordOf(endpoint, zoneName) ==
  [SubDomain |-> getOVHSubDomain(endpoint.DNSName, zoneName),
   FieldType |-> endpoint.RecordType,
   Target |-> endpoint.Targets[1],
   TTL |-> endpoint.RecordTTL]

\* The query of the lookup by (fieldType, subDomain) of deleteRecords and
\* updateRecords.
QueryOf(endpoint, zoneName) ==
  [SubDomain |-> getOVHSubDomain(endpoint.DNSName, zoneName),
   FieldType |-> endpoint.RecordType, Target |-> "", TTL |-> 0]

\* ------------------------------------------------------------ ApplyChanges
\* createRecord without the domain filter test.
createRecordUnfiltered(endpoint, idx, postErr) ==
  LET zoneName == FindZone(zoneNameIDMapper, endpoint.DNSName)
  IN  IF zoneName = EmptyString THEN << >>
      ELSE IF Len(endpoint.Targets) # 1 THEN << >>
      ELSE IF dryRun THEN << >>
      ELSE <<Call("create", idx, "POST", zoneName, 0,
                  RecordOf(endpoint, zoneName), postErr, << >>)>>

\* createRecord that repeats a POST that failed.
createRecordRetrying(endpoint, idx, postErr) ==
  IF ~Match(endpoint.DNSName) THEN << >>
  ELSE LET zoneName == FindZone(zoneNameIDMapper, endpoint.DNSName)
           post == Call("create", idx, "POST", zoneName, 0,
                        RecordOf(endpoint, zoneName), postErr, << >>)
       IN  IF zoneName = EmptyString THEN << >>
           ELSE IF Len(endpoint.Targets) # 1 THEN << >>
           ELSE IF dryRun THEN << >>
           ELSE IF postErr THEN <<post, post>> ELSE <<post>>

\* The remote calls of one iteration of the loop of createRecords, for the
\* endpoint at index idx, when a POST would fail iff postErr.
createRecord(endpoint, idx, postErr) ==
  IF ~Match(endpoint.DNSName) THEN << >>
  ELSE LET zoneName == FindZone(zoneNameIDMapper, endpoint.DNSName)
       IN  IF zoneName = EmptyString THEN << >>
           ELSE IF Len(endpoint.Targets) # 1 THEN << >>
           ELSE IF dryRun THEN << >>
           ELSE <<Call("create", idx, "POST", zoneName, 0,
                       RecordOf(endpoint, zoneName), postErr, << >>)>>

\* deleteRecord without the dry-run test.
deleteRecordIgnoringDryRun(endpoint, idx, lookup, deleteErr) ==
  IF ~Match(endpoint.DNSName) THEN << >>
  ELSE LET zoneName == FindZone(zoneNameIDMapper, endpoint.DNSName)
       IN  IF zoneName = EmptyString THEN << >>
           ELSE <<Call("delete", idx, "GET", zoneName, 0,
                       QueryOf(endpoint, zoneName), lookup.err, lookup.ids)>> \o
                (IF lookup.err \/ Len(lookup.ids) # 1 THEN << >>
                 ELSE <<Call("delete", idx, "DELETE", zoneName, lookup.ids[1],
                             NoRecord, deleteErr, << >>)>>)

\* deleteRecord that deletes the first id of an ambiguous lookup.
deleteRecordFirstOfMany(endpoint, idx, lookup, deleteErr) ==
  IF ~Match(endpoint.DNSName) THEN << >>
  ELSE LET zoneName == FindZone(zoneNameIDMapper, endpoint.DNSName)
       IN  IF zoneName = EmptyString THEN << >>
           ELSE <<Call("delete", idx, "GET", zoneName, 0,
                       QueryOf(endpoint, zoneName), lookup.err, lookup.ids)>> \o
                (IF lookup.err \/ Len(lookup.ids) = 0 THEN << >>
                 ELSE IF dryRun THEN << >>
                 ELSE <<Call("delete", idx, "DELETE", zoneName, lookup.ids[1],
                             NoRecord, deleteErr, << >>)>>)

\* The remote calls of one iteration of the loop of deleteRecords, when the
\* lookup answers with lookup and a DELETE would fail iff deleteErr.
deleteRecord(endpoint, idx, lookup, deleteErr) ==
  IF ~Match(endpoint.DNSName) THEN << >>
  ELSE LET zoneName == FindZone(zoneNameIDMapper, endpoint.DNSName)
       IN  IF zoneName = EmptyString THEN << >>
           ELSE <<Call("delete", idx, "GET", zoneName, 0,
                       QueryOf(endpoint, zoneName), lookup.err, lookup.ids)>> \o
                (IF lookup.err \/ Len(lookup.ids) # 1 THEN << >>
                 ELSE IF dryRun THEN << >>
                 ELSE <<Call("delete", idx, "DELETE", zoneName, lookup.ids[1],
                             NoRecord, deleteErr, << >>)>>)

\* updateRecord that rejects only an endpoint with no target.
updateRecordManyTargets(endpoint, idx, lookup, putErr) ==
  IF ~Match(endpoint.DNSName) THEN << >>
  ELSE LET zoneName == FindZone(zoneNameIDMapper, endpoint.DNSName)
       IN  IF zoneName = EmptyString THEN << >>
           ELSE IF Len(endpoint.Targets) = 0 THEN << >>
           ELSE <<Call("update", idx, "GET", zoneName, 0,
                       QueryOf(endpoint, zoneName), lookup.err, lookup.ids)>> \o
                (IF lookup.err \/ Len(lookup.ids) # 1 THEN << >>
                 ELSE IF dryRun THEN << >>
                 ELSE <<Call("update", idx, "PUT", zoneName, lookup.ids[1],
                             RecordOf(endpoint, zoneName), putErr, << >>)>>)

\* The remote calls of one iteration of the loop of updateRecords, when the
\* lookup answers with lookup and a PUT would fail iff putErr.
updateRecord(endpoint, idx, lookup, putErr) ==
  IF ~Match(endpoint.DNSName) THEN << >>
  ELSE LET zoneName == FindZone(zoneNameIDMapper, endpoint.DNSName)
       IN  IF zoneName = EmptyString THEN << >>
           ELSE IF Len(endpoint.Targets) # 1 THEN << >>
           ELSE <<Call("update", idx, "GET", zoneName, 0,
                       QueryOf(endpoint, zoneName), lookup.err, lookup.ids)>> \o
                (IF lookup.err \/ Len(lookup.ids) # 1 THEN << >>
                 ELSE IF dryRun THEN << >>
                 ELSE <<Call("update", idx, "PUT", zoneName, lookup.ids[1],
                             RecordOf(endpoint, zoneName), putErr, << >>)>>)

\* getZones: the call it issues.
getZones(response) ==
  Call("zones", 0, "GET", EmptyString, 0, NoRecord, response.err, << >>)

\* ApplyChanges that goes on after a failed getZones, with an empty table.
ApplyChangesZonesIgnoringError(response) ==
  [pc |-> "create", status |-> "none",
   mapper |-> [z \in Range(response.zones) |-> z]]

\* ApplyChanges after getZones: return the error, or build the lookup table
\* and go on to createRecords.
ApplyChangesZones(response) ==
  IF response.err
  THEN [pc |-> "done", status |-> "error", mapper |-> << >>]
  ELSE [pc |-> "create", status |-> "none",
        mapper |-> [z \in Range(response.zones) |-> z]]

\* ApplyChanges that runs updateRecords before deleteRecords.
NextPhaseUpdateFirst(phase) ==
  CASE phase = "create" -> "update"
    [] phase = "update" -> "delete"
    [] phase = "delete" -> "done"

\* The phase ApplyChanges runs after a phase.
NextPhase(phase) ==
  CASE phase = "create" -> "delete"
    [] phase = "delete" -> "update"
    [] phase = "update" -> "done"

\* A loop that ends at the first endpoint whose lookup or mutating call
\* failed or whose lookup was ambiguous.
NextEndpointStoppingOnFailure(list, idx, issued) ==
  IF \E k \in 1..Len(issued) :
       issued[k].err \/ (issued[k].method = "GET" /\ Len(issued[k].ids) # 1)
  THEN Len(list) + 1
  ELSE idx + 1

\* The index the loop over a list goes on with after the iteration for the
\* endpoint at idx issued the calls issued: every path through the body
\* ends in continue or falls through to the next endpoint.
NextEndpoint(list, idx, issued) == idx + 1

\* ApplyChanges(ctx, changes) up to the return of getZones.
ApplyChanges ==
  /\ op = "none"
  /\ \E chg \in Changesets, response \in ZoneResponses :
       LET next == ApplyChangesZones(response)
       IN  /\ op' = "ApplyChanges"
           /\ changes' = chg
           /\ calls' = <<getZones(response)>>
           /\ zones' = response.zones
           /\ zoneNameIDMapper' = next.mapper
           /\ pc' = next.pc
           /\ result' = [result EXCEPT !.status = next.status]
           /\ i' = 1
  /\ UNCHANGED <<dryRun, domainFilter, recordIDs, ri, endpoints, answer, visited>>

\* One iteration of the loop of createRecords.
CreateRecord ==
  /\ op = "ApplyChanges" /\ pc = "create" /\ i <= Len(changes.Create)
  /\ \E postErr \in BOOLEAN :
       LET issued == createRecord(changes.Create[i], i, postErr)
       IN  /\ calls' = calls \o issued
           /\ i' = NextEndpoint(changes.Create, i, issued)
  /\ visited' = Append(visited, <<"create", i>>)
  /\ UNCHANGED <<dryRun, domainFilter, op, pc, changes, zones, zoneNameIDMapper,
                 recordIDs, ri, endpoints, answer, result>>

\* The first round trip of an iteration of the loop of deleteRecords: the
\* endpoint is passed over without a call (continue), or the lookup is sent
\* and its answer kept, the loop still on the endpoint.
DeleteRecord ==
  /\ op = "ApplyChanges" /\ pc = "delete" /\ i <= Len(changes.Delete)
  /\ \E lookup \in LookupResponses :
       LET issued == deleteRecord(changes.Delete[i], i, lookup, FALSE)
       IN  IF issued = << >>
           THEN /\ calls' = calls
                /\ answer' = NoAnswer
                /\ pc' = pc
                /\ i' = NextEndpoint(changes.Delete, i, issued)
           ELSE /\ calls' = Append(calls, issued[1])
                /\ answer' = lookup
                /\ pc' = "deleteCall"
                /\ i' = i
  /\ visited' = Append(visited, <<"delete", i>>)
  /\ UNCHANGED <<dryRun, domainFilter, op, changes, zones, zoneNameIDMapper,
                 recordIDs, ri, endpoints, result>>

\* The rest of the iteration, on the answer of the lookup: the endpoint is
\* given up (continue), or the DELETE of the id looked up is sent and
\* answered; the loop moves on.
DeleteRecordCall ==
  /\ op = "ApplyChanges" /\ pc = "deleteCall"
  /\ \E deleteErr \in BOOLEAN :
       LET issued == deleteRecord(changes.Delete[i], i, answer, deleteErr)
       IN  /\ calls' = calls \o SubSeq(issued, 2, Len(issued))
           /\ i' = NextEndpoint(changes.Delete, i, issued)
  /\ answer' = NoAnswer
  /\ pc' = "delete"
  /\ UNCHANGED <<dryRun, domainFilter, op, changes, zones, zoneNameIDMapper,
                 recordIDs, ri, endpoints, visited, result>>

\* The first round trip of an iteration of the loop of updateRecords: the
\* endpoint is passed over without a call (continue), or the lookup is sent
\* and its answer kept, the loop still on the endpoint.
UpdateRecord ==
  /\ op = "ApplyChanges" /\ pc = "update" /\ i <= Len(changes.UpdateNew)
  /\ \E lookup \in LookupResponses :
       LET issued == updateRecord(changes.UpdateNew[i], i, lookup, FALSE)
       IN  IF issued = << >>
           THEN /\ calls' = calls
                /\ answer' = NoAnswer
                /\ pc' = pc
                /\ i' = NextEndpoint(changes.UpdateNew, i, issued)
           ELSE /\ calls' = Append(calls, issued[1])
                /\ answer' = lookup
                /\ pc' = "updateCall"
                /\ i' = i
  /\ visited' = Append(visited, <<"update", i>>)
  /\ UNCHANGED <<dryRun, domainFilter, op, changes, zones, zoneNameIDMapper,
                 recordIDs, ri, endpoints, result>>

\* The rest of the iteration, on the answer of the lookup: the endpoint is
\* given up (continue), or the PUT of the record to the id looked up is sent
\* and answered; the loop moves on.
UpdateRecordCall ==
  /\ op = "ApplyChanges" /\ pc = "updateCall"
  /\ \E putErr \in BOOLEAN :
       LET issued == updateRecord(changes.UpdateNew[i], i, answer, putErr)
       IN  /\ calls' = calls \o SubSeq(issued, 2, Len(issued))
           /\ i' = NextEndpoint(changes.UpdateNew, i, issued)
  /\ answer' = NoAnswer
  /\ pc' = "update"
  /\ UNCHANGED <<dryRun, domainFilter, op, changes, zones, zoneNameIDMapper,
                 recordIDs, ri, endpoints, visited, result>>

\* The list of the phase in progress.
PhaseList(phase) ==
  CASE phase = "create" -> changes.Create
    [] phase = "delete" -> changes.Delete
    [] phase = "update" -> changes.UpdateNew
    [] OTHER -> << >>

\* The loop of a phase ends: ApplyChanges calls the next phase or, after the
\* last one, returns nil.
PhaseDone ==
  /\ op = "ApplyChanges" /\ pc \in {"create", "delete", "update"}
  /\ i > Len(PhaseList(pc))
  /\ pc' = NextPhase(pc)
  /\ result' = [result EXCEPT !.status = IF NextPhase(pc) = "done" THEN "ok" ELSE @]
  /\ i' = 1
  /\ UNCHANGED <<dryRun, domainFilter, op, changes, zones, zoneNameIDMapper,
                 recordIDs, ri, endpoints, calls, answer, visited>>

\* ------------------------------------------------------------------ Records
\* Records(ctx) up to the return of getZones.
Records ==
  /\ op = "none"
  /\ \E response \in ZoneResponses :
       /\ calls' = <<getZones(response)>>
       /\ zones' = response.zones
       /\ IF response.err
          THEN /\ pc' = "done"
               /\ result' = [status |-> "error", isNil |-> TRUE, endpoints |-> << >>]
          ELSE /\ pc' = "zone"
               /\ result' = result
  /\ op' = "Records"
  /\ i' = 1
  /\ endpoints' = << >>
  /\ UNCHANGED <<dryRun, domainFilter, changes, zoneNameIDMapper, recordIDs, ri, answer, visited>>

\* Records on a record-id listing: the error returned, or the ids to fetch.
RecordsList(response) ==
  IF response.err
  THEN [pc |-> "done", status |-> "error", isNil |-> TRUE, ids |-> << >>]
  ELSE [pc |-> "fetch", status |-> "none", isNil |-> TRUE, ids |-> response.ids]

\* One iteration of the loop over the zones up to the listing of the
\* record ids: a zone the filter does not match is passed over.
RecordsZone ==
  /\ op = "Records" /\ pc = "zone" /\ i <= Len(zones)
  /\ IF ~Match(zones[i])
     THEN /\ i' = i + 1
          /\ UNCHANGED <<pc, recordIDs, ri, calls, result>>
     ELSE \E response \in ListResponses :
            LET next == RecordsList(response)
            IN  /\ calls' = Append(calls, Call("ids", i, "GET", zones[i], 0, NoRecord,
                                               response.err, response.ids))
                /\ recordIDs' = next.ids
                /\ ri' = 1
                /\ pc' = next.pc
                /\ result' = [result EXCEPT !.status = next.status]
                /\ i' = i
  /\ UNCHANGED <<dryRun, domainFilter, op, changes, zones, zoneNameIDMapper, endpoints,
                 answer, visited>>

\* Records that passes over a record it failed to fetch.
RecordsRecordBestEffort(response, zone, collected) ==
  [pc |-> "fetch", status |-> "none",
   endpoints |->
     IF ~response.err /\ supportedRecordType(response.record.FieldType)
     THEN Append(collected,
                 NewEndpointWithTTL(
                   formatOVHDNSName(response.record.SubDomain, zone),
                   response.record.FieldType, response.record.TTL,
                   response.record.Target))
     ELSE collected]

\* Records on a fetched record: the error returned, or the endpoints
\* collected after it.
RecordsRecord(response, zone, collected) ==
  IF response.err
  THEN [pc |-> "done", status |-> "error", endpoints |-> collected]
  ELSE [pc |-> "fetch", status |-> "none",
        endpoints |->
          IF supportedRecordType(response.record.FieldType)
          THEN Append(collected,
                      NewEndpointWithTTL(
                        formatOVHDNSName(response.record.SubDomain, zone),
                        response.record.FieldType, response.record.TTL,
                        response.record.Target))
          ELSE collected]

\* One iteration of the loop over the record ids of a zone.
RecordsFetch ==
  /\ op = "Records" /\ pc = "fetch" /\ ri <= Len(recordIDs)
  /\ \E response \in FetchResponses :
       LET next == RecordsRecord(response, zones[i], endpoints)
       IN  /\ calls' = Append(calls, Call("fetch", ri, "GET", zones[i], recordIDs[ri],
                                          response.record, response.err, << >>))
           /\ endpoints' = next.endpoints
           /\ pc' = next.pc
           /\ result' = [result EXCEPT !.status = next.status]
  /\ ri' = ri + 1
  /\ UNCHANGED <<dryRun, domainFilter, op, changes, zones, zoneNameIDMapper, i, recordIDs,
                 answer, visited>>

\* The loop over the record ids of a zone ends.
RecordsZoneDone ==
  /\ op = "Records" /\ pc = "fetch" /\ ri > Len(recordIDs)
  /\ pc' = "zone"
  /\ i' = i + 1
  /\ UNCHANGED <<dryRun, domainFilter, op, changes, zones, zoneNameIDMapper,
                 recordIDs, ri, endpoints, calls, answer, visited, result>>

\* Records returns the endpoints.
RecordsReturn ==
  /\ op = "Records" /\ pc = "zone" /\ i > Len(zones)
  /\ pc' = "done"
  /\ result' = [status |-> "ok", isNil |-> FALSE, endpoints |-> endpoints]
  /\ UNCHANGED <<dryRun, domainFilter, op, changes, zones, zoneNameIDMapper, i,
                 recordIDs, ri, endpoints, calls, answer, visited>>

\* ------------------------------------------------------------ specification
\* NewOVHProvider(config, domainFilter, dryRun).
Init ==
  /\ dryRun \in BOOLEAN
  /\ domainFilter \in DomainFilters
  /\ op = "none"
  /\ pc = "idle"
  /\ changes = NoChanges
  /\ zones = << >>
  /\ zoneNameIDMapper = << >>
  /\ i = 1
  /\ recordIDs = << >>
  /\ ri = 1
  /\ endpoints = << >>
  /\ calls = << >>
  /\ answer = NoAnswer
  /\ visited = << >>
  /\ result = NoResult

\* A provider on which ApplyChanges is called.
NextApplyChanges ==
  \/ ApplyChanges
  \/ CreateRecord
  \/ DeleteRecord
  \/ DeleteRecordCall
  \/ UpdateRecord
  \/ UpdateRecordCall
  \/ PhaseDone

SpecApplyChanges == Init /\ [][NextApplyChanges]_vars

\* A provider on which Records is called.
NextRecords ==
  \/ Records
  \/ RecordsZone
  \/ RecordsFetch
  \/ RecordsZoneDone
  \/ RecordsReturn

SpecRecords == Init /\ [][NextRecords]_vars

\* ------------------------------------------------- reading the call log
Mutating == {"POST", "PUT", "DELETE"}

PhaseRank(phase) ==
  CASE phase = "create" -> 1
    [] phase \in {"delete", "deleteCall"} -> 2
    [] phase \in {"update", "updateCall"} -> 3
    [] phase = "done" -> 4
    [] OTHER -> 0

\* How far ApplyChanges has come: the phase in progress, all of them once it
\* has returned nil, none when getZones failed.
Progress ==
  IF pc = "done" /\ result.status # "ok" THEN 0 ELSE PhaseRank(pc)

\* The iteration of an endpoint has sent its lookup and not yet acted on
\* the answer.
InProgress(pi) ==
  /\ pc \in {"deleteCall", "updateCall"}
  /\ pi = visited[Len(visited)]

\* The number of endpoints of a phase whose loop iteration is over.
Processed(phase) ==
  IF op # "ApplyChanges" THEN 0
  ELSE IF Progress > PhaseRank(phase) THEN Len(PhaseList(phase))
  ELSE IF Progress = PhaseRank(phase) THEN i - 1
  ELSE 0

Phases == {"create", "delete", "update"}
\* The (phase, index) pairs of the endpoints processed so far.
Done ==
  {<<"create", k>> : k \in 1..Processed("create")} \cup
  {<<"delete", k>> : k \in 1..Processed("delete")} \cup
  {<<"update", k>> : k \in 1..Processed("update")}
EndpointAt(pi) == PhaseList(pi[1])[pi[2]]
\* The remote calls issued for one endpoint.
CallsOf(pi) == SelectSeq(calls, LAMBDA c : c.phase = pi[1] /\ c.idx = pi[2])
MutatingCallsOf(pi) == SelectSeq(CallsOf(pi), LAMBDA c : c.method \in Mutating)
LookupsOf(pi) == SelectSeq(CallsOf(pi), LAMBDA c : c.method = "GET")
\* The zone that owns the name of an endpoint, "" when none does.
ZoneOf(endpoint) == FindZone(zoneNameIDMapper, endpoint.DNSName)
\* The pre-checks of an endpoint in a phase: its name matches the domain
\* filter, a known zone owns it and, in create and update, it has one target.
PreChecks(pi) ==
  /\ Match(EndpointAt(pi).DNSName)
  /\ ZoneOf(EndpointAt(pi)) # EmptyString
  /\ pi[1] \in {"create", "update"} => Len(EndpointAt(pi).Targets) = 1

\* ------------------------------------------------------------------ claims
InApply == op = "ApplyChanges"
InRecords == op = "Records"

\* C1: with the dry-run flag set ApplyChanges issues no POST, PUT or DELETE,
\* while the zone listing and the lookup GET by (fieldType, subDomain) of
\* every delete and update endpoint that passes its pre-checks are issued.
C1_DryRunOnlyReads ==
  (InApply /\ dryRun) =>
    /\ \A k \in 1..Len(calls) : calls[k].method = "GET"
    /\ Len(calls) >= 1 /\ calls[1].phase = "zones"
    /\ \A pi \in Done :
         (pi[1] \in {"delete", "update"} /\ PreChecks(pi)) =>
           LET issued == CallsOf(pi)
               zoneName == ZoneOf(EndpointAt(pi))
           IN  /\ Len(issued) = 1
               /\ issued[1].method = "GET"
               /\ issued[1].zone = zoneName
               /\ issued[1].fieldType = EndpointAt(pi).RecordType
               /\ issued[1].subDomain = getOVHSubDomain(EndpointAt(pi).DNSName, zoneName)

\* A dry run has returned after a delete lookup and an update lookup that
\* each found exactly one id, and nothing was deleted or replaced.
C1_Witness ==
  /\ InApply /\ dryRun /\ pc = "done" /\ result.status = "ok"
  /\ \E j, k \in 1..Len(calls) :
       /\ calls[j].phase = "delete" /\ ~calls[j].err /\ Len(calls[j].ids) = 1
       /\ calls[k].phase = "update" /\ ~calls[k].err /\ Len(calls[k].ids) = 1

\* C2: a DELETE or PUT is made only right after the lookup of the same
\* endpoint returned exactly one id, and addresses that id; a lookup that
\* failed or returned zero or several ids is followed by no DELETE or PUT
\* for its endpoint.
C2_MutationOnlyAfterUniqueLookup ==
  InApply =>
    /\ \A k \in 1..Len(calls) :
         calls[k].method \in {"DELETE", "PUT"} =>
           /\ k > 1
           /\ calls[k - 1].method = "GET"
           /\ calls[k - 1].phase = calls[k].phase
           /\ calls[k - 1].idx = calls[k].idx
           /\ ~calls[k - 1].err
           /\ Len(calls[k - 1].ids) = 1
           /\ calls[k].id = calls[k - 1].ids[1]
    /\ \A pi \in Done :
         LET lookups == LookupsOf(pi)
         IN  (\E k \in 1..Len(lookups) : lookups[k].err \/ Len(lookups[k].ids) # 1) =>
               MutatingCallsOf(pi) = << >>

\* One run holds a lookup that returned several ids, with no mutation for
\* its endpoint, and a DELETE or PUT for another endpoint.
C2_Witness ==
  /\ InApply /\ pc = "done"
  /\ \E j, k \in 1..Len(calls) :
       /\ calls[j].method = "GET" /\ Len(calls[j].ids) >= 2
       /\ calls[k].method \in {"DELETE", "PUT"}

\* C3: an endpoint whose name does not match the domain filter gets no
\* remote call, in any phase.
C3_FilteredOutNoCalls ==
  \A pi \in Done : ~Match(EndpointAt(pi).DNSName) => CallsOf(pi) = << >>

\* A live run has passed over a create endpoint and an update endpoint that
\* a known zone owns and that carry one target, but that the filter rejects.
C3_Witness ==
  /\ InApply /\ ~dryRun /\ pc = "done"
  /\ \E p, q \in Done :
       /\ p[1] = "create" /\ q[1] = "update"
       /\ \A pi \in {p, q} :
            /\ ~Match(EndpointAt(pi).DNSName)
            /\ ZoneOf(EndpointAt(pi)) # EmptyString
            /\ Len(EndpointAt(pi).Targets) = 1

\* C4: in create and update an endpoint whose number of targets is not one
\* gets no remote call: no POST, no lookup GET, no PUT.
C4_TargetCountNoCalls ==
  \A pi \in Done :
    (pi[1] \in {"create", "update"} /\ Len(EndpointAt(pi).Targets) # 1) =>
      CallsOf(pi) = << >>

\* A live run has passed over an update endpoint with no target and a
\* create endpoint with two, both matching the filter in a known zone.
C4_Witness ==
  /\ InApply /\ ~dryRun /\ pc = "done"
  /\ \E p, q \in Done :
       /\ p[1] = "create" /\ Len(EndpointAt(p).Targets) = 2
       /\ q[1] = "update" /\ Len(EndpointAt(q).Targets) = 0
       /\ \A pi \in {p, q} :
            Match(EndpointAt(pi).DNSName) /\ ZoneOf(EndpointAt(pi)) # EmptyString

\* C5: ApplyChanges returns an error iff the zone enumeration fails, and
\* then makes no further call; when the enumeration succeeds it never
\* returns an error and returns success whatever else failed.
C5_ErrorIffZonesFail ==
  InApply =>
    /\ calls[1].err => (pc = "done" /\ result.status = "error" /\ Len(calls) = 1)
    /\ ~calls[1].err => result.status # "error"
    /\ (~calls[1].err /\ pc = "done") => result.status = "ok"

\* ApplyChanges has returned success although a POST and a lookup failed.
C5_Witness ==
  /\ InApply /\ pc = "done" /\ result.status = "ok"
  /\ \E j, k \in 1..Len(calls) :
       /\ calls[j].method = "POST" /\ calls[j].err
       /\ calls[k].method = "GET" /\ calls[k].phase # "zones" /\ calls[k].err

\* The requests of Records after the zone listing, as <<kind, zone, id>>.
RequestsAfterZones ==
  [k \in 1..(Len(calls) - 1) |->
     <<calls[k + 1].phase, calls[k + 1].zone, calls[k + 1].id>>]
\* The record-id listings Records received, in order.
Listings == SelectSeq(calls, LAMBDA c : c.phase = "ids")
\* The records Records fetched, in order.
Fetched == SelectSeq(calls, LAMBDA c : c.phase = "fetch")
\* The requests a run through the listings makes: for each listing in
\* turn, the listing and then one fetch per listed id, in listing order.
RECURSIVE RequestsFor(_)
RequestsFor(ls) ==
  IF ls = << >> THEN << >>
  ELSE <<<<"ids", Head(ls).zone, 0>>>> \o
       [k \in 1..Len(Head(ls).ids) |-> <<"fetch", Head(ls).zone, Head(ls).ids[k]>>] \o
       RequestsFor(Tail(ls))
\* The endpoint a fetched record stands for.
EndpointOfFetch(c) ==
  [DNSName |-> IF c.subDomain = EmptyString THEN c.zone ELSE c.subDomain \o c.zone,
   RecordType |-> c.fieldType, RecordTTL |-> c.ttl, Targets |-> <<c.target>>]
RECURSIVE EndpointsOf(_)
EndpointsOf(fs) ==
  IF fs = << >> THEN << >>
  ELSE (IF Head(fs).fieldType \in SupportedRecordTypes
        THEN <<EndpointOfFetch(Head(fs))>> ELSE << >>) \o EndpointsOf(Tail(fs))

\* C6: Records is fail-fast: a failed read is the last call it issues, it
\* then returns the error and no endpoint list; it returns an endpoint list
\* only when every read it issued succeeded.
C6_RecordsFailFast ==
  InRecords =>
    /\ \A k \in 1..Len(calls) :
         calls[k].err =>
           /\ k = Len(calls)
           /\ pc = "done"
           /\ result.status = "error"
           /\ result.isNil /\ result.endpoints = << >>
    /\ result.status = "error" => calls[Len(calls)].err
    /\ result.status = "ok" =>
         (~result.isNil /\ \A k \in 1..Len(calls) : ~calls[k].err)
    /\ pc = "done" => result.status \in {"ok", "error"}

\* Records has failed on a record fetch after it had already converted a
\* record of an earlier zone into an endpoint.
C6_Witness ==
  /\ InRecords /\ pc = "done" /\ result.status = "error"
  /\ endpoints # << >>
  /\ calls[Len(calls)].phase = "fetch"
  /\ i = 2

\* C7: when all reads succeed Records returns, in zone enumeration order and
\* within a zone in id listing order, one single-target endpoint per fetched
\* record of a supported type, named subDomain + "." + zone or the bare
\* zone when subDomain is empty, with the record's type, TTL and target;
\* exactly the zones matching the filter are listed, each once, and exactly
\* the listed ids are fetched.
C7_RecordsResult ==
  (InRecords /\ pc = "done" /\ result.status = "ok") =>
    /\ [k \in 1..Len(Listings) |-> Listings[k].zone] = SelectSeq(zones, Match)
    /\ RequestsAfterZones = RequestsFor(Listings)
    /\ result.endpoints = EndpointsOf(Fetched)

\* Records has returned after two zones of which the filter matches one,
\* whose ids were listed as 2, 1 and whose two records gave one apex endpoint,
\* the other record being of an unsupported type.
C7_Witness ==
  /\ InRecords /\ pc = "done" /\ result.status = "ok"
  /\ Len(zones) = 2 /\ Len(Listings) = 1
  /\ Len(Fetched) = 2
  /\ Len(result.endpoints) = 1
  /\ result.endpoints[1].DNSName = Listings[1].zone
  /\ Fetched[1].id = 2

\* C8: the calls of ApplyChanges are ordered by phase: the zone listing
\* first, then the POSTs of create, then the lookups and DELETEs of delete,
\* then the lookups and PUTs of update, each phase in list order; no POST
\* after a DELETE or PUT and no DELETE after a PUT.
C8_PhaseOrder ==
  InApply =>
    /\ calls[1].phase = "zones" /\ calls[1].method = "GET"
    /\ \A k \in 2..Len(calls) :
         /\ calls[k].phase \in Phases
         /\ calls[k].phase = "create" => calls[k].method = "POST"
         /\ calls[k].phase = "delete" => calls[k].method \in {"GET", "DELETE"}
         /\ calls[k].phase = "update" => calls[k].method \in {"GET", "PUT"}
    /\ \A j, k \in 2..Len(calls) :
         j < k =>
           /\ PhaseRank(calls[j].phase) <= PhaseRank(calls[k].phase)
           /\ calls[j].phase = calls[k].phase => calls[j].idx <= calls[k].idx
           /\ ~(calls[j].method \in {"DELETE", "PUT"} /\ calls[k].method = "POST")
           /\ ~(calls[j].method = "PUT" /\ calls[k].method = "DELETE")

\* A DELETE has been followed by the lookup and the PUT of an update.
C8_Witness ==
  /\ InApply /\ pc = "done"
  /\ \E j, k \in 1..Len(calls) :
       j < k /\ calls[j].method = "DELETE" /\ calls[k].method = "PUT"

\* The endpoints of the changeset as <<phase, index>>, in the order
\* ApplyChanges is to handle them.
AllEndpoints ==
  [k \in 1..Len(changes.Create) |-> <<"create", k>>] \o
  [k \in 1..Len(changes.Delete) |-> <<"delete", k>>] \o
  [k \in 1..Len(changes.UpdateNew) |-> <<"update", k>>]
\* Whether the response logged with a lookup is exactly one id.
UniqueLookup(c) == ~c.err /\ Len(c.ids) = 1

\* C9: in a live ApplyChanges whose zone enumeration succeeded the loop
\* iterations run are those of the endpoints of the three lists, in order
\* and each once, all of them by the time it returns; in delete and update
\* an endpoint gets its lookup iff its own pre-checks pass; and an endpoint
\* gets exactly one mutating call when its own pre-checks pass and (delete,
\* update) its own lookup returned exactly one id, and none otherwise
\* (none yet while its iteration waits between the lookup and that call),
\* whatever was skipped or failed before it in its list or in an earlier
\* phase.
C9_PerItemIsolation ==
  (InApply /\ ~dryRun /\ ~calls[1].err) =>
    /\ Len(visited) <= Len(AllEndpoints)
    /\ visited = SubSeq(AllEndpoints, 1, Len(visited))
    /\ pc = "done" => visited = AllEndpoints
    /\ \A k \in 2..Len(calls) :
         \E v \in 1..Len(visited) : visited[v] = <<calls[k].phase, calls[k].idx>>
    /\ \A pi \in Range(AllEndpoints) :
         (\A v \in 1..Len(visited) : visited[v] # pi) => CallsOf(pi) = << >>
    /\ \A v \in 1..Len(visited) :
         LET pi == visited[v]
             lookups == LookupsOf(pi)
             mutations == MutatingCallsOf(pi)
         IN  /\ Len(lookups) =
                  (IF pi[1] \in {"delete", "update"} /\ PreChecks(pi) THEN 1 ELSE 0)
             /\ Len(mutations) =
                  (IF /\ PreChecks(pi)
                      /\ pi[1] \in {"delete", "update"} => UniqueLookup(lookups[1])
                      /\ ~InProgress(pi)
                   THEN 1 ELSE 0)
             /\ Len(CallsOf(pi)) = Len(lookups) + Len(mutations)

\* A live ApplyChanges has returned after a delete list of two endpoints
\* that both passed their pre-checks: the lookup of the first failed, and
\* the second was looked up and deleted all the same.
C9_Witness ==
  /\ InApply /\ ~dryRun /\ pc = "done" /\ result.status = "ok"
  /\ Len(changes.Delete) = 2
  /\ PreChecks(<<"delete", 1>>) /\ PreChecks(<<"delete", 2>>)
  /\ Len(LookupsOf(<<"delete", 1>>)) = 1
  /\ LookupsOf(<<"delete", 1>>)[1].err
  /\ MutatingCallsOf(<<"delete", 1>>) = << >>
  /\ Len(MutatingCallsOf(<<"delete", 2>>)) = 1

\* C10: the sub-domain sent in a record (POST, PUT) or in a lookup query is
\* empty iff the name of the endpoint equals the name of the zone that owns it.
C10_SubDomainEmptyIffApex ==
  InApply =>
    \A k \in 2..Len(calls) :
      (calls[k].method \in {"POST", "PUT", "GET"}) =>
        (calls[k].subDomain = EmptyString <=>
           EndpointAt(<<calls[k].phase, calls[k].idx>>).DNSName = calls[k].zone)

====
